---- MODULE Spec2Model ----
(***************************************************************************)
(* BiometricProcessor (biometrics/stream/biometric_processor.py).          *)
(*                                                                         *)
(* One processor object per body side.  Its fields are the record `self`;  *)
(* `db` is the list of records handed to insert_vitals, `calls` counts the *)
(* calculate_vitals calls made so far and `last` remembers the inputs of   *)
(* the latest call, `fused_under` the statistics in force when the most    *)
(* recent heart rate was fused.  Floats are fixed-point numbers with Scale *)
(* units per BPM (per ms, per breath/min); divisions round down.           *)
(***************************************************************************)
EXTENDS Integers, Sequences, FiniteSets, TLC

VARIABLES self, db, calls, last, fused_under

vars == <<self, db, calls, last, fused_under>>

-----------------------------------------------------------------------------
(* Numbers *)

\* fixed-point resolution of a float: 10 units are 1.0
Scale == 10

\* Python's None for an Optional float
None == -99999

\* float('nan')
NaN == -88888

-----------------------------------------------------------------------------
(* Configuration: constructor arguments and runtime_params *)

insertion_frequency == 2

rolling_average_size == 2

moving_avg_size == 3

hr_std_range == <<1 * Scale, 10 * Scale>>

hr_percentile == <<15, 80>>

no_presence_tolerance == 10

\* deque([], maxlen=100)
combined_maxlen == 100

\* signal_range > 200_000
presence_threshold == 200000

\* the band is widened to 25 BPM: avg +- 12.5
min_band_width == 25 * Scale

half_band_width == (25 * Scale) \div 2

-----------------------------------------------------------------------------
(* Bounds of the model *)

\* calculate_vitals calls explored
MaxCalls == 4

\* not_present_for is explored up to this value
MaxNotPresent == 11

\* calculate_vitals calls explored by the long run that fills combined_measurements
MaxLongCalls == 103

-----------------------------------------------------------------------------
(* numpy and deque helpers *)

RECURSIVE Sum(_)
Sum(s) == IF s = <<>> THEN 0 ELSE Head(s) + Sum(Tail(s))

\* np.mean: nan for an empty list
Mean(s) == IF s = <<>> THEN NaN ELSE Sum(s) \div Len(s)

\* the largest r in lo..hi with r * r <= x
RECURSIVE SqrtBetween(_, _, _)
SqrtBetween(x, lo, hi) ==
    IF lo >= hi THEN lo
    ELSE LET mid == (lo + hi + 1) \div 2
         IN  IF mid * mid <= x THEN SqrtBetween(x, mid, hi)
             ELSE SqrtBetween(x, lo, mid - 1)

\* np.sqrt, rounded down
Sqrt(x) == SqrtBetween(x, 0, IF x < 46340 THEN x ELSE 46340)

RECURSIVE SumSqDev(_, _)
SumSqDev(s, m) ==
    IF s = <<>> THEN 0
    ELSE (Head(s) - m) * (Head(s) - m) + SumSqDev(Tail(s), m)

\* np.std: population standard deviation
Std(s) == Sqrt(SumSqDev(s, Mean(s)) \div Len(s))

RECURSIVE Insert(_, _)
Insert(x, s) ==
    IF s = <<>> THEN <<x>>
    ELSE IF x <= Head(s) THEN <<x>> \o s
    ELSE <<Head(s)>> \o Insert(x, Tail(s))

RECURSIVE Sorted(_)
Sorted(s) == IF s = <<>> THEN <<>> ELSE Insert(Head(s), Sorted(Tail(s)))

\* np.percentile, linear interpolation between the two nearest ranks
Percentile(s, p) ==
    LET a == Sorted(s)
        pos == (Len(s) - 1) * p
        lo == pos \div 100 + 1
        hi == IF lo < Len(s) THEN lo + 1 ELSE lo
    IN  a[lo] + ((a[hi] - a[lo]) * (pos % 100)) \div 100

\* list(d)[-n:]
LastN(s, n) == IF Len(s) <= n THEN s ELSE SubSeq(s, Len(s) - n + 1, Len(s))

\* a deque that drops its newest entry when full (pop() for popleft())
DequeAppendEvictNewest(d, x, maxlen) ==
    IF Len(d) < maxlen THEN Append(d, x) ELSE Append(SubSeq(d, 1, Len(d) - 1), x)

\* deque(maxlen).append: the oldest entry is dropped when the deque is full
DequeAppend(d, x, maxlen) ==
    IF Len(d) < maxlen THEN Append(d, x) ELSE Append(Tail(d), x)

Abs(x) == IF x < 0 THEN -x ELSE x

-----------------------------------------------------------------------------
(* The DSP stage (heart.heartpy.process and the filters before it) is a    *)
(* black box: for one signal it raises, or returns bpm, sdnn and           *)
(* breathingrate.  breathingrate is in mHz, the rest in Scale units.       *)

DspRaises == [kind |-> "raise", bpm |-> 0, sdnn |-> 0, breathingrate |-> 0]

\* signal2 is None
NoSignal == [kind |-> "absent", bpm |-> 0, sdnn |-> 0, breathingrate |-> 0]

DspResult(bpm, sdnn, br) ==
    [kind |-> "ok", bpm |-> bpm, sdnn |-> sdnn, breathingrate |-> br]

\* a measurement that was not produced (the Python None)
NoMeasurement ==
    [side |-> "none", timestamp |-> None, heart_rate |-> None,
     hrv |-> None, breathing_rate |-> None]

-----------------------------------------------------------------------------
(* BiometricProcessor *)

\* an init_tracking that forgets hr_std_2
init_tracking_keeps_band(s) ==
    [s EXCEPT !.heart_rates = <<>>,
              !.lower_bound = None,
              !.upper_bound = None,
              !.hr_moving_avg = None]

\* init_tracking: the running metrics, emptied
init_tracking(s) ==
    [s EXCEPT !.heart_rates = <<>>,
              !.lower_bound = None,
              !.upper_bound = None,
              !.hr_moving_avg = None,
              !.hr_std_2 = None]

\* __init__
new_processor(debug) ==
    [present |-> FALSE,
     side |-> "left",
     iteration_count |-> 0,
     debug |-> debug,
     heart_rates |-> <<>>,
     lower_bound |-> None,
     upper_bound |-> None,
     hr_moving_avg |-> None,
     hr_std_2 |-> None,
     not_present_for |-> 0,
     combined_measurements |-> <<>>,
     debug_measurements |-> <<>>,
     epoch |-> None]

\* a reset that forgets iteration_count
reset_keeps_count(s) == init_tracking(s)

\* a reset that empties the measurement log as well
reset_clears_measurements(s) ==
    init_tracking([s EXCEPT !.iteration_count = 0, !.combined_measurements = <<>>])

reset(s) == init_tracking([s EXCEPT !.iteration_count = 0])

\* the threshold compared with >=
is_present_signal_inclusive(signal_range) == signal_range >= presence_threshold

\* np.ptp(signal) > 200_000
is_present_signal(signal_range) == signal_range > presence_threshold

\* the tolerance compared with >=: every low signal past the tolerance resets again
detect_presence_resets_again(s, signal_range) ==
    IF is_present_signal(signal_range)
    THEN [s EXCEPT !.not_present_for = 0, !.present = TRUE]
    ELSE LET t == [s EXCEPT !.not_present_for = s.not_present_for + 1]
         IN  IF t.not_present_for >= no_presence_tolerance
             THEN reset([t EXCEPT !.present = FALSE])
             ELSE t

detect_presence(s, signal_range) ==
    IF is_present_signal(signal_range)
    THEN [s EXCEPT !.not_present_for = 0, !.present = TRUE]
    ELSE LET t == [s EXCEPT !.not_present_for = s.not_present_for + 1]
         IN  IF t.not_present_for = no_presence_tolerance
             THEN reset([t EXCEPT !.present = FALSE])
             ELSE t

is_valid(s, bpm) ==
    IF bpm = NaN THEN FALSE
    ELSE IF bpm > 90 * Scale THEN FALSE
    ELSE IF s.lower_bound # None /\ s.upper_bound # None
         THEN s.lower_bound < bpm /\ bpm < s.upper_bound
         ELSE TRUE

\* hrv = sdnn, 0 when outside [30, 120]
plausible_hrv(sdnn) == IF sdnn < 30 * Scale \/ sdnn > 120 * Scale THEN 0 ELSE sdnn

\* breathing_rate = breathingrate * 60, 0 when outside [8, 25]
plausible_breathing_rate(breathingrate) ==
    LET breathing_rate == (breathingrate * 60 * Scale) \div 1000
    IN  IF breathing_rate < 8 * Scale \/ breathing_rate > 25 * Scale
        THEN 0 ELSE breathing_rate

\* _calculate_vitals on a signal for which the DSP stage returned `dsp`
extract_vitals(s, dsp, epoch) ==
    IF is_valid(s, dsp.bpm)
    THEN [side |-> s.side,
          timestamp |-> epoch,
          heart_rate |-> dsp.bpm,
          hrv |-> plausible_hrv(dsp.sdnn),
          breathing_rate |-> plausible_breathing_rate(dsp.breathingrate)]
    ELSE NoMeasurement

\* try: measurement = self._calculate_vitals(signal, epoch) except: pass
try_extract(s, dsp, epoch) ==
    IF dsp.kind = "ok" THEN extract_vitals(s, dsp, epoch) ELSE NoMeasurement

\* a clamp without abs(): values below the band pass
clamp_above_only(s, heart_rate) ==
    IF s.hr_moving_avg # None /\ heart_rate - s.hr_moving_avg > s.hr_std_2
    THEN s.hr_moving_avg + s.hr_std_2
    ELSE heart_rate

\* a clamp that takes hr_std_2 for one standard deviation and doubles it
clamp_double_band(s, heart_rate) ==
    IF s.hr_moving_avg # None /\ Abs(heart_rate - s.hr_moving_avg) > 2 * s.hr_std_2
    THEN IF heart_rate < s.hr_moving_avg
         THEN s.hr_moving_avg - 2 * s.hr_std_2
         ELSE s.hr_moving_avg + 2 * s.hr_std_2
    ELSE heart_rate

\* the outlier clamp applied on each fusion path
clamp(s, heart_rate) ==
    IF s.hr_moving_avg # None /\ Abs(heart_rate - s.hr_moving_avg) > s.hr_std_2
    THEN IF heart_rate < s.hr_moving_avg
         THEN s.hr_moving_avg - s.hr_std_2
         ELSE s.hr_moving_avg + s.hr_std_2
    ELSE heart_rate

\* both measurements without the second stage: the moving average is left out
fuse_both_single_stage(s, m1, m2) == (m1.heart_rate + m2.heart_rate) \div 2

\* both measurements: mean of the two, averaged again with the moving average
fuse_both(s, m1, m2) ==
    IF s.hr_moving_avg # None
    THEN (((m1.heart_rate + m2.heart_rate) \div 2) + s.hr_moving_avg) \div 2
    ELSE (m1.heart_rate + m2.heart_rate) \div 2

\* measurement_1 only: its own heart rate
fuse_first(s, m1) == m1.heart_rate

\* measurement_2 treated like measurement_1
fuse_second_undamped(s, m2) == m2.heart_rate

\* measurement_2 only: averaged with the moving average
fuse_second(s, m2) ==
    IF s.hr_moving_avg # None
    THEN (m2.heart_rate + s.hr_moving_avg) \div 2
    ELSE m2.heart_rate

\* self.heart_rates.append(hr); self.combined_measurements.append(record)
record_measurement(s, record) ==
    [s EXCEPT !.heart_rates = DequeAppend(@, record.heart_rate, moving_avg_size),
              !.combined_measurements = DequeAppend(@, record, combined_maxlen)]

\* the fusion of calculate_vitals, before self.next()
fuse(s, epoch, m1, m2) ==
    IF m1 # NoMeasurement /\ m2 # NoMeasurement
    THEN record_measurement(s,
             [side |-> s.side,
              timestamp |-> epoch,
              heart_rate |-> clamp(s, fuse_both(s, m1, m2)),
              hrv |-> (m1.hrv + m2.hrv) \div 2,
              breathing_rate |-> m1.breathing_rate + m2.breathing_rate])
    ELSE IF m1 # NoMeasurement
    THEN record_measurement(s, [m1 EXCEPT !.heart_rate = clamp(s, fuse_first(s, m1))])
    ELSE IF m2 # NoMeasurement
    THEN record_measurement(s, [m2 EXCEPT !.heart_rate = clamp(s, fuse_second(s, m2))])
    ELSE s

\* the modulo taken of the count before its increment
insertion_point_before_increment(s) ==
    (s.iteration_count - 1) % insertion_frequency = 0
        /\ Len(s.combined_measurements) > 0

\* the modulo forgotten
insertion_point_every_epoch(s) == Len(s.combined_measurements) > 0

\* iteration_count % insertion_frequency == 0 and len(combined_measurements) > 0
is_insertion_point(s) ==
    s.iteration_count % insertion_frequency = 0 /\ Len(s.combined_measurements) > 0

\* the slice taken from the front, [:rolling_average_size]
rolling_heart_rate_oldest(s) ==
    Mean(SubSeq(s.heart_rates, 1,
                IF Len(s.heart_rates) < rolling_average_size
                THEN Len(s.heart_rates) ELSE rolling_average_size))

\* np.mean(list(self.heart_rates)[self.rolling_average_size * -1:])
rolling_heart_rate(s) == Mean(LastN(s.heart_rates, rolling_average_size))

last_measurement(s) == s.combined_measurements[Len(s.combined_measurements)]

\* datetime.utcfromtimestamp(ts).isoformat(): the calendar day and the second of that day
utcfromtimestamp(ts) == [day |-> ts \div 86400, second |-> ts % 86400]

\* the record appended to debug_measurements
debug_measurement(s) ==
    [side |-> last_measurement(s).side,
     timestamp |-> last_measurement(s).timestamp,
     hrv |-> last_measurement(s).hrv,
     breathing_rate |-> last_measurement(s).breathing_rate,
     last_combined_measurement |-> utcfromtimestamp(last_measurement(s).timestamp),
     current_ts |-> utcfromtimestamp(s.epoch),
     heart_rate |-> rolling_heart_rate(s),
     last_heart_rates |-> LastN(s.heart_rates, 25),
     hr_moving_avg |-> s.hr_moving_avg,
     lower_bound |-> s.lower_bound,
     upper_bound |-> s.upper_bound,
     hr_std_2 |-> s.hr_std_2,
     length |-> Len(s.heart_rates)]

\* a sink whose debug branch rewrites the stored heart rate as the other branch does
sink_rewrites_in_debug(s) ==
    IF ~is_insertion_point(s) THEN s
    ELSE IF ~s.debug
    THEN [s EXCEPT !.combined_measurements[Len(s.combined_measurements)].heart_rate =
                       rolling_heart_rate(s)]
    ELSE [s EXCEPT !.debug_measurements = Append(@, debug_measurement(s)),
                   !.combined_measurements[Len(s.combined_measurements)].heart_rate =
                       rolling_heart_rate(s)]

\* the periodic sink of next(): the processor after it
sink(s) ==
    IF ~is_insertion_point(s) THEN s
    ELSE IF ~s.debug
    THEN [s EXCEPT !.combined_measurements[Len(s.combined_measurements)].heart_rate =
                       rolling_heart_rate(s)]
    ELSE [s EXCEPT !.debug_measurements = Append(@, debug_measurement(s))]

\* the records next() hands to insert_vitals: none or one
inserted_by(s) ==
    IF is_insertion_point(s) /\ ~s.debug THEN <<last_measurement(sink(s))>> ELSE <<>>

\* the band clamped from below only: the elif branch left out
std_band_floor_only(heart_rates) ==
    LET hr_std_2 == Std(heart_rates) * 2
    IN  IF hr_std_2 < hr_std_range[1] THEN hr_std_range[1] ELSE hr_std_2

\* 2 * np.std, clamped into hr_std_range
std_band(heart_rates) ==
    LET hr_std_2 == Std(heart_rates) * 2
    IN  IF hr_std_2 < hr_std_range[1] THEN hr_std_range[1]
        ELSE IF hr_std_2 > hr_std_range[2] THEN hr_std_range[2]
        ELSE hr_std_2

\* the widening left out: the bounds are always the percentiles
update_statistics_never_widens(s) ==
    IF Len(s.heart_rates) >= moving_avg_size
    THEN [s EXCEPT !.hr_moving_avg = Mean(s.heart_rates),
                   !.lower_bound = Percentile(s.heart_rates, hr_percentile[1]),
                   !.upper_bound = Percentile(s.heart_rates, hr_percentile[2]),
                   !.hr_std_2 = std_band(s.heart_rates)]
    ELSE s

\* the statistics of next(), recomputed when the history is full
update_statistics(s) ==
    IF Len(s.heart_rates) >= moving_avg_size
    THEN LET avg == Mean(s.heart_rates)
             lower == Percentile(s.heart_rates, hr_percentile[1])
             upper == Percentile(s.heart_rates, hr_percentile[2])
             narrow == upper - lower < min_band_width
         IN  [s EXCEPT !.hr_moving_avg = avg,
                       !.lower_bound = IF narrow THEN avg - half_band_width ELSE lower,
                       !.upper_bound = IF narrow THEN avg + half_band_width ELSE upper,
                       !.hr_std_2 = std_band(s.heart_rates)]
    ELSE s

\* next(): the processor after it
next(s) ==
    LET t == [s EXCEPT !.iteration_count = s.iteration_count + 1]
    IN  update_statistics(sink(t))

\* the records the next() of this epoch hands to insert_vitals
next_inserts(s) == inserted_by([s EXCEPT !.iteration_count = s.iteration_count + 1])

\* calculate_vitals up to self.next()
fused(s, epoch, dsp1, dsp2) ==
    LET t == [s EXCEPT !.epoch = epoch]
    IN  fuse(t, epoch, try_extract(t, dsp1, epoch), try_extract(t, dsp2, epoch))

\* a calculate_vitals that returns before self.next() when nothing was fused
calculate_vitals_returns_early(s, epoch, dsp1, dsp2) ==
    LET t == fused(s, epoch, dsp1, dsp2)
    IN  IF t.heart_rates = s.heart_rates /\ t.combined_measurements = s.combined_measurements
        THEN t ELSE next(t)

calculate_vitals(s, epoch, dsp1, dsp2) == next(fused(s, epoch, dsp1, dsp2))

-----------------------------------------------------------------------------
(* The calls made on the processor *)

\* peak-to-peak ranges of the signals fed in: at and just above the threshold
SignalRanges == {presence_threshold, presence_threshold + 1}

Dsp60 == DspResult(60 * Scale, 50 * Scale, 250)

Dsp70 == DspResult(70 * Scale, 20 * Scale, 500)

Dsp85 == DspResult(85 * Scale, 50 * Scale, 250)

\* the calculate_vitals calls explored, <<np.ptp(signal1), DSP of signal1, DSP of signal2>>:
\* strong signals on which one DSP run succeeds and the other raises, and a flat one on
\* which both raise
VitalsInputs ==
    {<<presence_threshold + 1, Dsp60, DspRaises>>,
     <<presence_threshold + 1, DspRaises, Dsp70>>,
     <<presence_threshold + 1, DspRaises, Dsp85>>,
     <<presence_threshold, DspRaises, DspRaises>>}

\* the same with both DSP runs succeeding, with a single sensor and with a reading the
\* validation rejects
FusionInputs ==
    VitalsInputs
    \cup {<<presence_threshold + 1, Dsp60, Dsp70>>,
          <<presence_threshold + 1, Dsp70, NoSignal>>,
          <<presence_threshold, DspResult(95 * Scale, 50 * Scale, 250), Dsp60>>}

\* the statistics a heart rate was fused under
StatsOf(s) == [avg |-> s.hr_moving_avg, band |-> s.hr_std_2]

NoCall == [op |-> "none", signal_range |-> 0, dsp1 |-> NoSignal, dsp2 |-> NoSignal]

Init ==
    /\ \E debug \in BOOLEAN : self = new_processor(debug)
    /\ db = <<>>
    /\ calls = 0
    /\ last = NoCall
    /\ fused_under = [avg |-> None, band |-> None]

\* processor.calculate_vitals(epoch, signal1, signal2), the epoch being the call's number
CalculateVitalsWith(signal_range, dsp1, dsp2) ==
    LET epoch == calls + 1
        merged == fused(self, epoch, dsp1, dsp2)
        handed == next_inserts(merged)
    IN  /\ self' = calculate_vitals(self, epoch, dsp1, dsp2)
        /\ db' = IF handed = <<>> THEN db
                 ELSE Append(db, [at |-> epoch, record |-> handed[1]])
        /\ calls' = epoch
        /\ last' = [op |-> "calculate_vitals", signal_range |-> signal_range,
                    dsp1 |-> dsp1, dsp2 |-> dsp2]
        /\ fused_under' = IF merged.heart_rates # self.heart_rates
                          THEN StatsOf(self) ELSE fused_under

CalculateVitals ==
    /\ calls < MaxCalls
    /\ \E in \in VitalsInputs : CalculateVitalsWith(in[1], in[2], in[3])

\* processor.detect_presence(signal)
DetectPresenceWith(signal_range) ==
    /\ self' = detect_presence(self, signal_range)
    /\ last' = [op |-> "detect_presence", signal_range |-> signal_range,
                dsp1 |-> NoSignal, dsp2 |-> NoSignal]
    /\ UNCHANGED <<db, calls, fused_under>>

DetectPresence ==
    /\ self.not_present_for < MaxNotPresent
    /\ \E signal_range \in SignalRanges : DetectPresenceWith(signal_range)

Next == CalculateVitals \/ DetectPresence

Spec == Init /\ [][Next]_vars

\* A long night on a two-sensor side: sensor 1 reads 60 BPM in every epoch, the DSP
\* run of sensor 2 succeeds in every other epoch; the user stays on the bed.
SteadyVitals ==
    /\ calls < MaxLongCalls
    /\ CalculateVitalsWith(presence_threshold + 1, Dsp60,
                           IF (calls + 1) % 2 = 0 THEN Dsp70 ELSE DspRaises)

UserPresent == DetectPresenceWith(presence_threshold + 1)

LongNext == SteadyVitals \/ UserPresent

LongSpec == Init /\ [][LongNext]_vars

\* Two sensors on a bed the user never leaves
FuseVitals ==
    /\ calls < MaxCalls
    /\ \E in \in FusionInputs : CalculateVitalsWith(in[1], in[2], in[3])

FusionNext == FuseVitals \/ UserPresent

FusionSpec == Init /\ [][FusionNext]_vars

\* One sensor whose readings spread over the range the DSP stage is asked for (40 to 90)
BandBpms == {45 * Scale, 60 * Scale, 62 * Scale, 85 * Scale, 90 * Scale}

ReadVitals ==
    /\ calls < MaxCalls
    /\ \E bpm \in BandBpms :
           CalculateVitalsWith(presence_threshold + 1, DspResult(bpm, 50 * Scale, 250), NoSignal)

BandNext == ReadVitals \/ UserPresent

BandSpec == Init /\ [][BandNext]_vars

-----------------------------------------------------------------------------
(* Vocabulary of the properties *)

\* the number of insert_vitals invocations made after call number c
SinkCallsAfter(c) == Cardinality({i \in DOMAIN db : db[i].at > c})

\* a record was fused after call number c
FusedAfter(c) ==
    \E i \in DOMAIN self.combined_measurements :
        self.combined_measurements[i].timestamp > c

Latest(seq) == seq[Len(seq)]

-----------------------------------------------------------------------------
(* C1: in non-debug mode insert_vitals is invoked exactly once in every    *)
(* block of insertion_frequency calculate_vitals calls (counted by         *)
(* iteration_count) in which a record was fused, at the call that makes    *)
(* iteration_count a multiple of insertion_frequency, and at no other call *)
(* of the block.                                                           *)
C1_OncePerBlock ==
    ~self.debug =>
        LET k == self.iteration_count % insertion_frequency
        IN  /\ k # 0 => SinkCallsAfter(calls - k) = 0
            /\ (self.iteration_count > 0 /\ k = 0
                    /\ FusedAfter(calls - insertion_frequency))
                => /\ SinkCallsAfter(calls - insertion_frequency) = 1
                   /\ Latest(db).at = calls

\* a block completed after a presence reset, with a record fused in it and the sink invoked
C1_Witness ==
    /\ ~self.debug
    /\ self.iteration_count = insertion_frequency
    /\ calls > self.iteration_count
    /\ FusedAfter(calls - insertion_frequency)
    /\ db # <<>> /\ Latest(db).at = calls

(* C2: the record handed to insert_vitals carries the mean of the last     *)
(* rolling_average_size entries of heart_rates as they stand after the     *)
(* fusion of that epoch (np.mean, which is nan for an empty history), and  *)
(* it is the most recent entry of combined_measurements.                   *)
C2_SmoothedRecord ==
    (last.op = "calculate_vitals" /\ db # <<>> /\ Latest(db).at = calls) =>
        LET n == Len(self.heart_rates)
            from == IF n > rolling_average_size THEN n - rolling_average_size + 1 ELSE 1
            window == [i \in 1..(n - from + 1) |-> self.heart_rates[from + i - 1]]
        IN  /\ Latest(db).record.heart_rate =
                   (IF n = 0 THEN NaN ELSE Sum(window) \div Len(window))
            /\ Latest(db).record = Latest(self.combined_measurements)

\* the sink fired in an epoch that fused a value, with a history longer than the window
C2_Witness ==
    /\ last.op = "calculate_vitals"
    /\ db # <<>> /\ Latest(db).at = calls
    /\ Latest(db).record.timestamp = calls
    /\ Len(self.heart_rates) > rolling_average_size
    /\ self.heart_rates[1] # Latest(self.heart_rates)

(* C3 as stated: every calculate_vitals call runs the presence detector on *)
(* its signal: a low-amplitude signal increments not_present_for, a        *)
(* high-amplitude one leaves present true and not_present_for 0.           *)
C3_VitalsRunDetector ==
    [][(last'.op = "calculate_vitals" /\ calls' = calls + 1) =>
          IF last'.signal_range > 200000
          THEN self'.present /\ self'.not_present_for = 0
          ELSE self'.not_present_for = self.not_present_for + 1]_vars

(* C3, amended: calculate_vitals never runs the presence detector, it      *)
(* leaves present and not_present_for as they were whatever the amplitude  *)
(* of its signal; only detect_presence updates them: a low-amplitude       *)
(* signal increments not_present_for (and at the tolerance the reset       *)
(* fires), a high-amplitude one sets present and zeroes not_present_for.   *)
C3_OnlyDetectPresenceGates ==
    [][/\ (last'.op = "calculate_vitals" /\ calls' = calls + 1) =>
              /\ self'.present = self.present
              /\ self'.not_present_for = self.not_present_for
       /\ (last'.op = "detect_presence" /\ calls' = calls) =>
              IF last'.signal_range > 200000
              THEN self'.present /\ self'.not_present_for = 0
              ELSE /\ self'.not_present_for = self.not_present_for + 1
                   /\ IF self'.not_present_for = 10
                      THEN ~self'.present /\ self'.heart_rates = <<>>
                           /\ self'.iteration_count = 0
                      ELSE self'.present = self.present]_vars

\* calculate_vitals was just called with a high-amplitude signal and present is still false
C3_Witness ==
    /\ last.op = "calculate_vitals"
    /\ last.signal_range > 200000
    /\ ~self.present
    /\ self.iteration_count > 0

-----------------------------------------------------------------------------
(* Inputs the properties quantify over: every DSP outcome of interest, far *)
(* more than the calls explored feed in.                                   *)

ProbeBpms ==
    {NaN, 0, 48 * Scale, 52 * Scale, 56 * Scale, 60 * Scale, 64 * Scale, 68 * Scale,
     72 * Scale, 76 * Scale, 80 * Scale, 90 * Scale, 90 * Scale + 1, 250 * Scale}

ProbeOutcomes == {DspRaises} \cup {DspResult(bpm, 50 * Scale, 250) : bpm \in ProbeBpms}

\* x lies within avg - band .. avg + band
WithinBand(x, avg, band) == avg - band <= x /\ x <= avg + band

(* C4: while hr_moving_avg and hr_std_2 are defined, the heart rate that a *)
(* calculate_vitals call appends to heart_rates and stores in the new      *)
(* record lies within hr_moving_avg +- hr_std_2 of the statistics in force *)
(* at the start of the call, on every fusion path and for every input BPM. *)
C4_FusedWithinBand ==
    (self.hr_moving_avg # None /\ self.hr_std_2 # None) =>
        \A dsp1 \in ProbeOutcomes, dsp2 \in ProbeOutcomes \cup {NoSignal} :
            LET merged == fused(self, calls + 1, dsp1, dsp2)
            IN  merged.combined_measurements # self.combined_measurements =>
                    /\ WithinBand(Latest(merged.combined_measurements).heart_rate,
                                  self.hr_moving_avg, self.hr_std_2)
                    /\ WithinBand(Latest(merged.heart_rates),
                                  self.hr_moving_avg, self.hr_std_2)

\* a signal1-only reading below the band was just fused at the band's lower edge
C4_Witness ==
    /\ last.op = "calculate_vitals"
    /\ last.dsp1.kind = "ok" /\ last.dsp2.kind = "raise"
    /\ self.combined_measurements # <<>>
    /\ Latest(self.combined_measurements).timestamp = calls
    /\ fused_under.avg # None
    /\ last.dsp1.bpm < fused_under.avg - fused_under.band
    /\ Latest(self.heart_rates) = fused_under.avg - fused_under.band

-----------------------------------------------------------------------------
(* C5 as stated: at every call boundary, whenever the statistics are       *)
(* defined, the most recent heart_rates entry and the heart rate of the    *)
(* most recent record lie within hr_moving_avg +- hr_std_2 of the current  *)
(* statistics.                                                             *)
C5_WithinCurrentBand ==
    (self.hr_moving_avg # None /\ self.hr_std_2 # None
        /\ self.lower_bound # None /\ self.upper_bound # None) =>
        /\ WithinBand(Latest(self.heart_rates), self.hr_moving_avg, self.hr_std_2)
        /\ WithinBand(Latest(self.combined_measurements).heart_rate,
                      self.hr_moving_avg, self.hr_std_2)

(* C5, amended: at every call boundary the most recent heart_rates entry   *)
(* lies within avg +- band of the statistics that were in force when it    *)
(* was fused, if they were defined then (not of the statistics next()      *)
(* recomputed since); the most recent record holds that same heart rate    *)
(* unless the periodic sink has overwritten it with the rolling mean.      *)
C5_WithinBandAtFusion ==
    (self.heart_rates # <<>> /\ fused_under.avg # None) =>
        /\ WithinBand(Latest(self.heart_rates), fused_under.avg, fused_under.band)
        /\ \/ Latest(self.combined_measurements).heart_rate = Latest(self.heart_rates)
           \/ /\ ~self.debug
              /\ db # <<>>
              /\ Latest(db).record = Latest(self.combined_measurements)

\* a clamped value sits in the history, outlived a recomputation of the statistics, and
\* the sink has replaced the record's heart rate by the rolling mean
C5_Witness ==
    /\ self.heart_rates # <<>>
    /\ fused_under.avg # None
    /\ self.hr_moving_avg # None
    /\ self.hr_moving_avg # fused_under.avg
    /\ Latest(self.heart_rates) = fused_under.avg + fused_under.band
    /\ Latest(self.combined_measurements).heart_rate # Latest(self.heart_rates)

(* C6: at every call boundary lower_bound, upper_bound, hr_moving_avg and  *)
(* hr_std_2 are all defined when len(heart_rates) == moving_avg_size and   *)
(* all unset otherwise, and when defined they are the statistics of the    *)
(* current heart_rates (recomputed in every epoch once the history is      *)
(* full).                                                                  *)
C6_StatisticsIffFull ==
    LET h == self.heart_rates
        avg == Sum(h) \div Len(h)
        p15 == Percentile(h, 15)
        p80 == Percentile(h, 80)
        std2 == 2 * Sqrt(SumSqDev(h, avg) \div Len(h))
    IN  IF Len(h) = moving_avg_size
        THEN /\ self.hr_moving_avg = avg
             /\ self.lower_bound = (IF p80 - p15 < 250 THEN avg - 125 ELSE p15)
             /\ self.upper_bound = (IF p80 - p15 < 250 THEN avg + 125 ELSE p80)
             /\ self.hr_std_2 = (IF std2 < 10 THEN 10 ELSE IF std2 > 100 THEN 100 ELSE std2)
        ELSE /\ self.hr_moving_avg = None
             /\ self.lower_bound = None
             /\ self.upper_bound = None
             /\ self.hr_std_2 = None

\* the history was full, one more value was fused and the statistics follow it
C6_Witness ==
    /\ Len(self.heart_rates) = moving_avg_size
    /\ Len(self.combined_measurements) = moving_avg_size + 1
    /\ self.heart_rates[1] # Latest(self.heart_rates)
    /\ self.hr_moving_avg # None

-----------------------------------------------------------------------------
(* C7: len(heart_rates) <= moving_avg_size and len(combined_measurements)  *)
(* <= 100 after every call, and an append to a full buffer evicts its      *)
(* oldest entry: the entries kept are the former ones without the first.   *)
C7_BoundedBuffers ==
    [][/\ Len(self'.heart_rates) <= moving_avg_size
       /\ Len(self'.combined_measurements) <= 100
       /\ (last'.op = "calculate_vitals" /\ calls' = calls + 1
              /\ self'.combined_measurements # <<>>
              /\ Latest(self'.combined_measurements).timestamp = calls') =>
             LET hr == self.heart_rates
                 cm == self.combined_measurements
                 kept_hr == SubSeq(self'.heart_rates, 1, Len(self'.heart_rates) - 1)
                 kept_cm == SubSeq(self'.combined_measurements, 1,
                                   Len(self'.combined_measurements) - 1)
             IN  /\ kept_hr = (IF Len(hr) = moving_avg_size THEN Tail(hr) ELSE hr)
                 /\ kept_cm = (IF Len(cm) = 100 THEN Tail(cm) ELSE cm)]_vars

\* both buffers are full and the first records fused have been evicted
C7_Witness ==
    /\ Len(self.combined_measurements) = 100
    /\ self.combined_measurements[1].timestamp = 3
    /\ Len(self.heart_rates) = moving_avg_size
    /\ self.heart_rates[1] # self.heart_rates[2]

(* C8: the tolerance-th consecutive low-amplitude signal (peak-to-peak <=  *)
(* 200000) given to detect_presence sets present to false and leaves       *)
(* heart_rates empty, the four statistics unset and iteration_count 0;     *)
(* every earlier low one only increments not_present_for; a high-amplitude *)
(* signal, also after tolerance - 1 low ones, performs no reset, leaves    *)
(* the running statistics untouched, zeroes not_present_for and sets       *)
(* present.                                                                *)
C8_ResetAtTolerance ==
    [][(last'.op = "detect_presence" /\ calls' = calls) =>
          LET untouched ==
                  /\ self'.heart_rates = self.heart_rates
                  /\ self'.lower_bound = self.lower_bound
                  /\ self'.upper_bound = self.upper_bound
                  /\ self'.hr_moving_avg = self.hr_moving_avg
                  /\ self'.hr_std_2 = self.hr_std_2
                  /\ self'.iteration_count = self.iteration_count
          IN  IF last'.signal_range <= 200000
              THEN /\ self'.not_present_for = self.not_present_for + 1
                   /\ IF self.not_present_for = 10 - 1
                      THEN /\ ~self'.present
                           /\ self'.heart_rates = <<>>
                           /\ self'.lower_bound = None
                           /\ self'.upper_bound = None
                           /\ self'.hr_moving_avg = None
                           /\ self'.hr_std_2 = None
                           /\ self'.iteration_count = 0
                      ELSE untouched /\ self'.present = self.present
              ELSE untouched /\ self'.not_present_for = 0 /\ self'.present]_vars

\* the tenth low signal has just wiped a processor that had fused a full history
C8_Witness ==
    /\ last.op = "detect_presence"
    /\ last.signal_range <= 200000
    /\ self.not_present_for = 10
    /\ ~self.present
    /\ self.heart_rates = <<>>
    /\ self.hr_moving_avg = None
    /\ self.iteration_count = 0
    /\ Len(self.combined_measurements) >= moving_avg_size
    /\ fused_under.avg # None

-----------------------------------------------------------------------------
\* the measurement the claims expect of one valid sensor, by the statistics in force
OwnHrv(dsp) == IF 30 * Scale <= dsp.sdnn /\ dsp.sdnn <= 120 * Scale THEN dsp.sdnn ELSE 0

OwnBreathingRate(dsp) ==
    LET rate == (dsp.breathingrate * 60 * Scale) \div 1000
    IN  IF 8 * Scale <= rate /\ rate <= 25 * Scale THEN rate ELSE 0

Limited(x, avg, band) ==
    IF avg = None THEN x
    ELSE IF x < avg - band THEN avg - band
    ELSE IF x > avg + band THEN avg + band
    ELSE x

(* C9 as stated: when the DSP stage raises for one signal and the other    *)
(* yields a valid measurement, the heart rate fused is signal1's BPM for a *)
(* signal1-only success, and signal2's BPM averaged with hr_moving_avg     *)
(* (when one exists) for a signal2-only success.                           *)
C9_OwnMeasurement ==
    (last.op = "calculate_vitals"
        /\ self.combined_measurements # <<>>
        /\ Latest(self.combined_measurements).timestamp = calls) =>
        /\ (last.dsp1.kind = "ok" /\ last.dsp2.kind = "raise") =>
               Latest(self.heart_rates) = last.dsp1.bpm
        /\ (last.dsp1.kind = "raise" /\ last.dsp2.kind = "ok") =>
               Latest(self.heart_rates) =
                   (IF fused_under.avg # None
                    THEN (last.dsp2.bpm + fused_under.avg) \div 2
                    ELSE last.dsp2.bpm)

\* DSP readings that differ in sdnn and breathingrate as well
ProbeReadings ==
    {DspResult(bpm, sdnn, br) :
        bpm \in ProbeBpms,
        sdnn \in {29 * Scale, 30 * Scale, 120 * Scale + 1},
        br \in {100, 250, 500}}

(* C9, amended: when the DSP stage raises for one signal and the other     *)
(* yields a valid measurement, calculate_vitals appends exactly one value  *)
(* to heart_rates and one record to combined_measurements; the heart rate  *)
(* fused is, for a signal1-only success, signal1's BPM and, for a          *)
(* signal2-only success, signal2's BPM averaged with hr_moving_avg when    *)
(* one exists, in both cases clamped into hr_moving_avg +- hr_std_2 when   *)
(* the statistics exist; the record's hrv and breathing rate are that      *)
(* sensor's own values, and the record's heart rate is the fused one       *)
(* unless the periodic sink of the same call overwrites it.                *)
C9_ClampedOwnMeasurement ==
    \A dsp \in ProbeReadings :
        try_extract(self, dsp, calls + 1) # NoMeasurement =>
            LET avg == self.hr_moving_avg
                band == self.hr_std_2
                only1 == fused(self, calls + 1, dsp, DspRaises)
                only2 == fused(self, calls + 1, DspRaises, dsp)
                damped == IF avg = None THEN dsp.bpm ELSE (dsp.bpm + avg) \div 2
                Own(t, heart_rate) ==
                    /\ Len(t.heart_rates) =
                           (IF Len(self.heart_rates) = moving_avg_size
                            THEN moving_avg_size ELSE Len(self.heart_rates) + 1)
                    /\ Latest(t.heart_rates) = heart_rate
                    /\ SubSeq(t.combined_measurements, 1,
                              Len(t.combined_measurements) - 1)
                           = (IF Len(self.combined_measurements) = 100
                              THEN Tail(self.combined_measurements)
                              ELSE self.combined_measurements)
                    /\ Latest(t.combined_measurements) =
                           [side |-> self.side,
                            timestamp |-> calls + 1,
                            heart_rate |-> heart_rate,
                            hrv |-> OwnHrv(dsp),
                            breathing_rate |-> OwnBreathingRate(dsp)]
            IN  /\ Own(only1, Limited(dsp.bpm, avg, band))
                /\ Own(only2, Limited(damped, avg, band))

\* signal1 raised, signal2's damped reading was above the band and was fused at its edge
C9_Witness ==
    /\ last.op = "calculate_vitals"
    /\ last.dsp1.kind = "raise" /\ last.dsp2.kind = "ok"
    /\ self.combined_measurements # <<>>
    /\ Latest(self.combined_measurements).timestamp = calls
    /\ fused_under.avg # None
    /\ (last.dsp2.bpm + fused_under.avg) \div 2 > fused_under.avg + fused_under.band
    /\ Latest(self.heart_rates) = fused_under.avg + fused_under.band

-----------------------------------------------------------------------------
(* C10: any two consecutive invocations of insert_vitals are at least      *)
(* insertion_frequency calculate_vitals calls apart, whatever              *)
(* detect_presence calls and resets come between them.                     *)
C10_SinkSpacing ==
    \A i \in 1..(Len(db) - 1) : db[i + 1].at - db[i].at >= insertion_frequency

\* two invocations with a presence reset between them
C10_Witness ==
    /\ Len(db) = 2
    /\ db[2].at = calls
    /\ self.iteration_count < db[2].at - db[1].at + insertion_frequency
    /\ self.iteration_count < calls
    /\ self.not_present_for >= 10

-----------------------------------------------------------------------------
\* hrv is 0 or within [30, 120] ms
PlausibleHrv(hrv) == hrv = 0 \/ (30 * Scale <= hrv /\ hrv <= 120 * Scale)

\* breathing_rate is 0 or within [8, 25] breaths per minute
PlausibleBreathingRate(rate) == rate = 0 \/ (8 * Scale <= rate /\ rate <= 25 * Scale)

(* C11: every record of combined_measurements, and every record handed to  *)
(* insert_vitals, has an hrv of 0 or within [30, 120] and a breathing rate *)
(* of 0 or within [8, 25], on every fusion path.                           *)
C11_PlausibleRecords ==
    /\ \A i \in DOMAIN self.combined_measurements :
           /\ PlausibleHrv(self.combined_measurements[i].hrv)
           /\ PlausibleBreathingRate(self.combined_measurements[i].breathing_rate)
    /\ \A i \in DOMAIN db :
           /\ PlausibleHrv(db[i].record.hrv)
           /\ PlausibleBreathingRate(db[i].record.breathing_rate)

-----------------------------------------------------------------------------
\* the DSP stage returned a reading for the signal and validation accepts it
Yields(s, dsp) ==
    /\ dsp.kind = "ok"
    /\ dsp.bpm # NaN
    /\ dsp.bpm <= 90 * Scale
    /\ (s.lower_bound # None /\ s.upper_bound # None) =>
           (s.lower_bound < dsp.bpm /\ dsp.bpm < s.upper_bound)

(* C12: a calculate_vitals call in which neither signal yields a           *)
(* measurement (the DSP stage raises, or the reading is invalid, for each  *)
(* supplied signal) appends nothing to heart_rates, appends no record to   *)
(* combined_measurements (the records stay as they were, but for the heart *)
(* rate of the newest one when the periodic sink of this call rewrites     *)
(* it), leaves present and not_present_for unchanged and increments        *)
(* iteration_count by exactly one.                                         *)
C12_NothingFused ==
    [][(last'.op = "calculate_vitals" /\ calls' = calls + 1
           /\ ~Yields(self, last'.dsp1) /\ ~Yields(self, last'.dsp2)) =>
          LET cm == self.combined_measurements
              rewritten == [cm EXCEPT ![Len(cm)].heart_rate = Latest(db').record.heart_rate]
          IN  /\ self'.heart_rates = self.heart_rates
              /\ \/ self'.combined_measurements = cm
                 \/ /\ cm # <<>>
                    /\ Len(db') = Len(db) + 1
                    /\ self'.combined_measurements = rewritten
              /\ self'.present = self.present
              /\ self'.not_present_for = self.not_present_for
              /\ self'.iteration_count = self.iteration_count + 1]_vars

\* the DSP stage raised for signal1, the reading of signal2 was rejected by the plausibility
\* band, and the call only advanced the epoch counter
C12_Witness ==
    /\ last.op = "calculate_vitals"
    /\ last.dsp1.kind = "raise" /\ last.dsp2.kind = "ok"
    /\ self.combined_measurements # <<>>
    /\ Latest(self.combined_measurements).timestamp < calls
    /\ self.upper_bound # None
    /\ last.dsp2.bpm >= self.upper_bound
    /\ self.iteration_count > Len(self.combined_measurements)
    /\ self.not_present_for > 0

-----------------------------------------------------------------------------
(* C13: hr_std_2, whenever it is defined, lies within hr_std_range, that   *)
(* is within [1, 10] BPM, in every reachable state.                        *)
C13_BandWithinRange ==
    self.hr_std_2 # None =>
        (1 * Scale <= self.hr_std_2 /\ self.hr_std_2 <= 10 * Scale)

\* a history whose doubled standard deviation exceeds the range: the band is its upper end
C13_Witness ==
    /\ self.hr_std_2 = 10 * Scale
    /\ Len(self.heart_rates) = moving_avg_size
    /\ 2 * Std(self.heart_rates) > 10 * Scale

-----------------------------------------------------------------------------
(* C14: detect_presence never modifies combined_measurements or            *)
(* debug_measurements.  The call that hits the tolerance changes, besides  *)
(* present and not_present_for, exactly heart_rates, lower_bound,          *)
(* upper_bound, hr_moving_avg, hr_std_2 and iteration_count, which it      *)
(* wipes; every other detect_presence call changes nothing except present  *)
(* and not_present_for.                                                    *)
C14_DetectPresenceFrame ==
    [][(last'.op = "detect_presence" /\ calls' = calls) =>
          LET hit == last'.signal_range <= 200000 /\ self.not_present_for + 1 = 10
              flagged == [self EXCEPT !.present = self'.present,
                                      !.not_present_for = self'.not_present_for]
          IN  /\ self'.combined_measurements = self.combined_measurements
              /\ self'.debug_measurements = self.debug_measurements
              /\ db' = db
              /\ IF hit
                 THEN self' = [flagged EXCEPT !.heart_rates = <<>>,
                                              !.lower_bound = None,
                                              !.upper_bound = None,
                                              !.hr_moving_avg = None,
                                              !.hr_std_2 = None,
                                              !.iteration_count = 0]
                 ELSE self' = flagged]_vars

\* the reset has just wiped the statistics of a debug processor and left its records and
\* its trace in place
C14_Witness ==
    /\ last.op = "detect_presence"
    /\ self.not_present_for = 10
    /\ self.heart_rates = <<>>
    /\ self.iteration_count = 0
    /\ fused_under.avg # None
    /\ Len(self.combined_measurements) >= moving_avg_size
    /\ self.debug_measurements # <<>>

-----------------------------------------------------------------------------
(* C15: in debug mode insert_vitals is never invoked and no record already *)
(* stored in combined_measurements is changed (the record fused by a call  *)
(* keeps the fused heart rate); at each insertion point, and only there,   *)
(* exactly one trace record is appended to debug_measurements, carrying    *)
(* the rolling mean and the newest record's other fields; no call, also no *)
(* presence reset, removes or changes a trace record.  In non-debug mode   *)
(* debug_measurements stays empty.                                         *)
C15_DebugTrace ==
    [][/\ self'.debug = self.debug
       /\ ~self.debug => self'.debug_measurements = <<>>
       /\ self.debug =>
             LET cm == self.combined_measurements
                 dm == self.debug_measurements
                 appended == /\ last'.op = "calculate_vitals"
                             /\ self'.combined_measurements # <<>>
                             /\ Latest(self'.combined_measurements).timestamp = calls'
                 kept == IF appended /\ Len(cm) = 100 THEN Tail(cm) ELSE cm
                 point == /\ last'.op = "calculate_vitals"
                          /\ self'.iteration_count % insertion_frequency = 0
                          /\ self'.combined_measurements # <<>>
                 window == LastN(self'.heart_rates, rolling_average_size)
             IN  /\ db' = <<>>
                 /\ IF appended
                    THEN /\ SubSeq(self'.combined_measurements, 1, Len(kept)) = kept
                         /\ Len(self'.combined_measurements) = Len(kept) + 1
                         /\ Latest(self'.combined_measurements).heart_rate
                                = Latest(self'.heart_rates)
                    ELSE self'.combined_measurements = cm
                 /\ IF point
                    THEN /\ Len(self'.debug_measurements) = Len(dm) + 1
                         /\ SubSeq(self'.debug_measurements, 1, Len(dm)) = dm
                         /\ Latest(self'.debug_measurements).timestamp
                                = Latest(self'.combined_measurements).timestamp
                         /\ Latest(self'.debug_measurements).hrv
                                = Latest(self'.combined_measurements).hrv
                         /\ Latest(self'.debug_measurements).heart_rate
                                = (IF window = <<>> THEN NaN
                                   ELSE Sum(window) \div Len(window))
                    ELSE self'.debug_measurements = dm]_vars

\* two insertion points of a debug processor, the second one in the latest call: two trace
\* records, nothing persisted, and the stored record still holds the fused heart rate
C15_Witness ==
    /\ self.debug
    /\ last.op = "calculate_vitals"
    /\ Len(self.debug_measurements) = 2
    /\ Latest(self.debug_measurements).current_ts = [day |-> 0, second |-> calls]
    /\ Latest(self.combined_measurements).timestamp = calls
    /\ Latest(self.debug_measurements).heart_rate
           # Latest(self.combined_measurements).heart_rate
    /\ db = <<>>

-----------------------------------------------------------------------------
\* readings on both sides of any band the calls explored can produce
CandidateOutcomes ==
    {DspRaises} \cup {DspResult(bpm * Scale, 50 * Scale, 250) : bpm \in {48, 60, 72, 84}}

(* C16: the heart rate a calculate_vitals call fuses is its candidate,     *)
(* clamped: with both measurements the candidate is the mean of the two    *)
(* BPMs, averaged once more with hr_moving_avg when it exists; with only   *)
(* signal1's measurement it is signal1's BPM, not averaged with            *)
(* hr_moving_avg; with only signal2's it is signal2's BPM averaged with    *)
(* hr_moving_avg when it exists.  hr_moving_avg and hr_std_2 are the ones  *)
(* the previous epoch left: the mean of the full history, unset before.    *)
C16_Candidate ==
    LET avg == self.hr_moving_avg
        band == self.hr_std_2
        h == self.heart_rates
    IN  /\ avg = (IF Len(h) = moving_avg_size THEN Sum(h) \div Len(h) ELSE None)
        /\ \A dsp1 \in CandidateOutcomes, dsp2 \in CandidateOutcomes \cup {NoSignal} :
               LET y1 == Yields(self, dsp1)
                   y2 == Yields(self, dsp2)
                   mean2 == (dsp1.bpm + dsp2.bpm) \div 2
                   candidate ==
                       IF y1 /\ y2
                       THEN IF avg = None THEN mean2 ELSE (mean2 + avg) \div 2
                       ELSE IF y1 THEN dsp1.bpm
                       ELSE IF avg = None THEN dsp2.bpm ELSE (dsp2.bpm + avg) \div 2
                   merged == fused(self, calls + 1, dsp1, dsp2)
               IN  (y1 \/ y2) =>
                       /\ Latest(merged.combined_measurements).timestamp = calls + 1
                       /\ Latest(merged.combined_measurements).heart_rate
                              = Limited(candidate, avg, band)
                       /\ Latest(merged.heart_rates) = Limited(candidate, avg, band)

\* both signals gave a measurement while a moving average existed: the value fused is the
\* mean of the two, averaged with the moving average, and differs from the plain mean
C16_Witness ==
    /\ last.op = "calculate_vitals"
    /\ last.dsp1.kind = "ok" /\ last.dsp2.kind = "ok"
    /\ Latest(self.combined_measurements).timestamp = calls
    /\ fused_under.avg # None
    /\ Latest(self.heart_rates)
           = ((last.dsp1.bpm + last.dsp2.bpm) \div 2 + fused_under.avg) \div 2
    /\ Latest(self.heart_rates) # (last.dsp1.bpm + last.dsp2.bpm) \div 2
    /\ Latest(self.heart_rates) # fused_under.avg + fused_under.band
    /\ Latest(self.heart_rates) # fused_under.avg - fused_under.band

-----------------------------------------------------------------------------
\* the fields a presence reset wipes
Tracking(s) ==
    <<s.heart_rates, s.lower_bound, s.upper_bound, s.hr_moving_avg, s.hr_std_2,
      s.iteration_count>>

(* C17: the presence reset is one-shot.  A detect_presence call changes    *)
(* the tracking state or clears present only when it is the low-amplitude  *)
(* call that takes not_present_for from tolerance - 1 to the tolerance; a  *)
(* low-amplitude call made when not_present_for is already at or past the  *)
(* tolerance only increments the counter, so what calculate_vitals         *)
(* accumulated since the reset stays; a high-amplitude call sets           *)
(* not_present_for to 0, and only from 0 can the counter come back to the  *)
(* tolerance.                                                              *)
C17_OneShotReset ==
    [][(last'.op = "detect_presence" /\ calls' = calls) =>
          /\ (Tracking(self') # Tracking(self) \/ (self.present /\ ~self'.present)) =>
                 /\ last'.signal_range <= 200000
                 /\ self.not_present_for = 10 - 1
                 /\ self'.not_present_for = 10
          /\ (last'.signal_range <= 200000 /\ self.not_present_for >= 10) =>
                 /\ self'.not_present_for = self.not_present_for + 1
                 /\ self'.not_present_for > 10
                 /\ Tracking(self') = Tracking(self)
                 /\ self'.present = self.present
          /\ last'.signal_range > 200000 => self'.not_present_for = 0
          /\ self'.not_present_for \in {0, self.not_present_for + 1}]_vars

\* the eleventh low signal of a run, given after calculate_vitals had refilled the history
\* that the tenth one wiped: the history is still there
C17_Witness ==
    /\ last.op = "detect_presence"
    /\ last.signal_range <= 200000
    /\ self.not_present_for = 10 + 1
    /\ self.heart_rates # <<>>
    /\ self.iteration_count > 0
    /\ self.iteration_count < calls

-----------------------------------------------------------------------------
\* the p-th percentile of a full history h, by linear interpolation between the two
\* closest ranks of the sorted history
RankedPercentile(h, p) ==
    LET n == Len(h)
        sorted == CHOOSE a \in [1..n -> {h[i] : i \in 1..n}] :
                      /\ \A i \in 1..(n - 1) : a[i] <= a[i + 1]
                      /\ \A v \in {h[i] : i \in 1..n} :
                             Cardinality({i \in 1..n : a[i] = v})
                                 = Cardinality({i \in 1..n : h[i] = v})
        rank == ((n - 1) * p) \div 100
        part == ((n - 1) * p) % 100
        above == IF rank + 2 <= n THEN sorted[rank + 2] ELSE sorted[n]
    IN  sorted[rank + 1] + ((above - sorted[rank + 1]) * part) \div 100

-----------------------------------------------------------------------------
\* the periodic sink fired in the latest call: a record was persisted or a trace appended
SinkFiredNow ==
    /\ last.op = "calculate_vitals"
    /\ \/ db # <<>> /\ Latest(db).at = calls
       \/ /\ self.debug_measurements # <<>>
          /\ Latest(self.debug_measurements).current_ts = utcfromtimestamp(calls)

(* C19: whenever the periodic sink fires (persistence or debug trace),     *)
(* heart_rates is non-empty, so the smoothed heart rate written is a       *)
(* defined mean and never the mean of an empty list, also after a presence *)
(* reset that empties heart_rates while combined_measurements keeps older  *)
(* records.                                                                *)
C19_SinkHasHistory ==
    /\ SinkFiredNow => self.heart_rates # <<>>
    /\ \A i \in DOMAIN db : db[i].record.heart_rate # NaN
    /\ \A i \in DOMAIN self.debug_measurements :
           self.debug_measurements[i].heart_rate # NaN

-----------------------------------------------------------------------------
(* C20: insert_vitals is never handed a stale record: every record passed  *)
(* to it was fused within the insertion_frequency epochs that end at the   *)
(* insertion point, and no record (same timestamp) is handed to it at two  *)
(* different insertion points, also when the window between them produced  *)
(* no measurement at all.                                                  *)
C20_NoStaleRecord ==
    /\ \A i \in DOMAIN db : db[i].at - db[i].record.timestamp < insertion_frequency
    /\ \A i, j \in DOMAIN db : i # j => db[i].record.timestamp # db[j].record.timestamp

====
